---- MODULE Spec2Model ----
(***************************************************************************)
(* Command gateway: admission pipeline (validate -> credit check -> rule   *)
(* match -> dispatch -> execute -> audit), approval workflow, admin credit  *)
(* override, rule and user administration behind API-key authentication,   *)
(* over a shared database.                                                 *)
(*                                                                         *)
(* Every request works in its own SQLAlchemy session: it reads rows into   *)
(* the session, changes the loaded objects, and db.commit() writes the     *)
(* changed columns back with UPDATE ... SET col = <value> WHERE id = ?     *)
(* (no row lock, no version column).  A handler is therefore split at its  *)
(* database round trips: one step for its reads, one step per commit.      *)
(* Several requests (several workers on one database) may be in flight,    *)
(* and any commit may fail with a storage error, which rolls the session   *)
(* back.                                                                   *)
(***************************************************************************)
EXTENDS Integers, Sequences, FiniteSets, Bags, TLC

\* ---------------------------------------------------------------- bounds
MaxCommands  == 2      \* submissions that may create a Command row
MaxOverrides == 1      \* admin credit overrides that are started
MaxConc      == 2      \* requests in flight at the same time
InitCredits  == 1      \* balance of every user in the initial state
MaxRules     == 2      \* rows of a rules table the matcher is given
MaxTextLen   == 4      \* characters of a text the validator is given
MaxCreated   == 1      \* commands, rules and users created where every
                       \* operation is called with every credential

\* ------------------------------------------------------- enumerations
ADMIN  == "admin"
MEMBER == "member"

AUTO_ACCEPT      == "AUTO_ACCEPT"
AUTO_REJECT      == "AUTO_REJECT"
REQUIRE_APPROVAL == "REQUIRE_APPROVAL"

ACCEPTED         == "accepted"
REJECTED         == "rejected"
EXECUTED         == "executed"
PENDING_APPROVAL == "pending_approval"

None     == 0        \* NULL id column / Python None (row ids start at 1)
NoText   == ""       \* NULL or empty string column (both falsy in Python)
NoAction == "NONE"   \* the matcher's None action

\* ------------------------------------------------------------- users
AdminId  == 1
MemberId == 2
UserIds  == {AdminId, MemberId}

\* the users who submit commands, and the administrators who review
\* approvals and override balances
Submitters == {MemberId}
Reviewers  == {AdminId}

role == [u \in UserIds |-> IF u = AdminId THEN ADMIN ELSE MEMBER]

\* a row of the users table (its credits column is the variable credits)
User(username, api_key, r) ==
    [username |-> username, api_key |-> api_key, role |-> r]

\* the seeded administrator and the member the administrator created
SeedUsers ==
    << User("admin", "admin-key", role[AdminId]),
       User("member", "member-key", role[MemberId]) >>

\* --------------------------------------------------------- characters
\* A text is a sequence of one-character strings.
OperatorChars   == {";", "&", "|"}
\* str.strip() whitespace and the validator's control class
\* [\x00-\x08\x0B\x0C\x0E-\x1F]; "VT" (\x0B) belongs to both.
WhitespaceChars == {" ", "TAB", "VT"}
ControlChars    == {"SOH", "VT"}

RECURSIVE LStrip(_)
LStrip(t) ==
    IF t = <<>> THEN <<>>
    ELSE IF Head(t) \in WhitespaceChars THEN LStrip(Tail(t)) ELSE t

RECURSIVE RStrip(_)
RStrip(t) ==
    IF t = <<>> THEN <<>>
    ELSE IF t[Len(t)] \in WhitespaceChars
         THEN RStrip(SubSeq(t, 1, Len(t) - 1)) ELSE t

strip(t) == RStrip(LStrip(t))

\* a run of three: c c c+
HasTriple(t, c) ==
    \E i \in 1..(Len(t) - 2) : t[i] = c /\ t[i + 1] = c /\ t[i + 2] = c

\* re.search of a two-character run c c+ in t
HasDouble(t, c) == \E i \in 1..(Len(t) - 1) : t[i] = c /\ t[i + 1] = c

\* a validator that lets every text pass
validate_nothing(command_text) == <<TRUE, "">>

\* validate_command: <<is_valid, error_message>>
validate_command(command_text) ==
    LET t == strip(command_text) IN
    IF t = <<>> THEN <<FALSE, "Command cannot be empty">>
    ELSE IF \E i \in 1..Len(t) : t[i] \in ControlChars
        THEN <<FALSE, "Command contains invalid control characters">>
    ELSE IF t[1] \in OperatorChars
        THEN <<FALSE, "Command cannot start with operators">>
    ELSE IF t[Len(t)] \in OperatorChars
        THEN <<FALSE, "Command cannot end with operators">>
    ELSE IF HasDouble(t, ";")
        THEN <<FALSE, "Invalid syntax: multiple semicolons">>
    ELSE IF HasDouble(t, "|")
        THEN <<FALSE, "Invalid syntax: multiple pipes">>
    ELSE IF HasDouble(t, "&")
        THEN <<FALSE, "Invalid syntax: multiple ampersands">>
    ELSE <<TRUE, "">>

\* ------------------------------------------------------------- rules
\* A pattern is [anchor, lit, ok]: the literal lit, anchored at the start
\* of the text when anchor, and ok = FALSE when re.compile raises re.error.
Pat(anchor, lit) == [anchor |-> anchor, lit |-> lit, ok |-> TRUE]

OccursAt(lit, t, i) ==
    /\ i + Len(lit) - 1 <= Len(t)
    /\ \A k \in 1..Len(lit) : t[i + k - 1] = lit[k]

\* re.fullmatch in the place of re.search
re_fullmatch(p, t) == p.lit = t

\* re.search(pattern, text) for a pattern that compiles
re_search(p, t) ==
    IF p.anchor THEN OccursAt(p.lit, t, 1)
    ELSE \E i \in 1..(Len(t) + 1) : OccursAt(p.lit, t, i)

RuleBefore(a, b) ==
    \/ a.priority < b.priority
    \/ a.priority = b.priority /\ a.id < b.id

\* ORDER BY priority ASC, id ASC
RECURSIVE OrderRules(_)
OrderRules(rs) ==
    IF rs = {} THEN <<>>
    ELSE LET m == CHOOSE r \in rs : \A o \in rs \ {r} : RuleBefore(r, o)
         IN <<m>> \o OrderRules(rs \ {m})

\* the scan without its except clause: re.error ends it
RECURSIVE FirstMatchOrRaise(_, _)
FirstMatchOrRaise(ordered, t) ==
    IF ordered = <<>> THEN None
    ELSE LET r == Head(ordered) IN
         IF ~r.pattern.ok THEN None
         ELSE IF re_search(r.pattern, t) THEN r.id
         ELSE FirstMatchOrRaise(Tail(ordered), t)

\* lines 52-60: the first rule whose pattern is found; a pattern that
\* raises re.error is skipped
RECURSIVE FirstMatch(_, _)
FirstMatch(ordered, t) ==
    IF ordered = <<>> THEN None
    ELSE LET r == Head(ordered) IN
         IF r.pattern.ok /\ re_search(r.pattern, t) THEN r.id
         ELSE FirstMatch(Tail(ordered), t)

\* A rules table is the sequence of its rows in the order the storage
\* returns them when a query states no ORDER BY.
Rows(table) == {table[i] : i \in DOMAIN table}

RuleById(table, id) == CHOOSE r \in Rows(table) : r.id = id

\* the rows as a query without ORDER BY returns them
unordered(table) == table

\* db.query(Rule).order_by(Rule.priority.asc(), Rule.id.asc()).all()
order_by(table) == OrderRules(Rows(table))

\* match_command_against_rules: <<matched rule id or None, action or NoAction>>
match_command_against_rules(command_text, table) ==
    LET id == FirstMatch(order_by(table), command_text) IN
    IF id = None THEN <<None, NoAction>>
    ELSE <<id, RuleById(table, id).action>>

Rule(id, p, a, prio, d) ==
    [id |-> id, pattern |-> p, action |-> a, priority |-> prio, description |-> d]

\* seed_database: reject rules at priority 0, accept rules at priority 1
SeedRules ==
    << Rule(1, Pat(FALSE, <<"r", "m">>), AUTO_REJECT, 0, "Delete root directory"),
       Rule(2, Pat(TRUE, <<"s", "u">>), REQUIRE_APPROVAL, 0, NoText),
       Rule(3, Pat(TRUE, <<"l", "s">>), AUTO_ACCEPT, 1, "Safe basic commands") >>

\* a pattern re.compile refuses
BadPat == [anchor |-> FALSE, lit |-> <<"(">>, ok |-> FALSE]

\* rules a rules table may hold besides the seeded ones: one whose pattern
\* no longer compiles, one that shares priority 1 with rule 3, and one
\* created last at priority 0
MatchRules ==
    Rows(SeedRules) \cup
    { Rule(4, BadPat, AUTO_REJECT, 0, NoText),
      Rule(5, Pat(FALSE, <<"s">>), AUTO_REJECT, 1, NoText),
      Rule(6, Pat(FALSE, <<"l">>), REQUIRE_APPROVAL, 0, NoText) }

\* rules tables of up to MaxRules rows, in every order the storage may
\* hold them
RuleHeaps ==
    {h \in UNION {[1..n -> MatchRules] : n \in 0..MaxRules} :
        \A i, j \in DOMAIN h : i # j => h[i].id # h[j].id}

\* command texts a client submits
Texts ==
    { <<"l", "s">>,          \* AUTO_ACCEPT
      <<"r", "m">>,          \* AUTO_REJECT
      <<"s", "u">>,          \* REQUIRE_APPROVAL
      <<";", "r", "m">> }    \* refused by the validator (rule 1 would match)

\* the same and a text that holds "rm" behind "ls"
MatchTexts == Texts \cup {<<"l", "s", "r", "m">>}

format_command_result(command, status) == <<"MOCK", command, status>>

\* -------------------------------------------------------------- state
VARIABLES
    credits,     \* users.credits, per user id
    commands,    \* commands table, row id = position
    approvals,   \* approval_requests table, row id = position
    audit,       \* audit_logs table, row id = position
    rules,       \* rules table
    users,       \* users table: username, api_key and role, row id = position
    req,         \* bag of requests in flight: handler position and session
    response,    \* the HTTP response sent by the last step, if it sent one
    overrides    \* credit overrides, and other changes by an administrator,
                 \* accepted so far (bounds the run)

vars == <<credits, commands, approvals, audit, rules, users, req, response,
          overrides>>
db   == <<credits, commands, approvals, audit, rules, users>>

\* a request's session: the objects it has loaded and staged
Session(pc, actor) ==
    [pc |-> pc, actor |-> actor, text |-> <<>>, aid |-> None, decision |-> "",
     reason |-> NoText, cid |-> None, uid |-> None, ucredits |-> 0,
     target |-> None, value |-> 0, staged |-> <<>>, body |-> <<>>]

NoResponse == [op |-> "", code |-> 0, ref |-> None]

Response(op, code, ref) == [op |-> op, code |-> code, ref |-> ref]

Init ==
    /\ credits = [u \in UserIds |-> InitCredits]
    /\ commands = <<>>
    /\ approvals = <<>>
    /\ audit = <<>>
    /\ rules = SeedRules
    /\ users = SeedUsers
    /\ req = EmptyBag
    /\ response = NoResponse
    /\ overrides = 0

InFlight == BagToSet(req)

\* a request is accepted by a free worker
Begin(r) ==
    /\ BagCardinality(req) < MaxConc
    /\ req' = req (+) SetToBag({r})
    /\ response' = NoResponse

\* the request moves on to its next database round trip
Continue(r, r2) ==
    /\ req' = (req (-) SetToBag({r})) (+) SetToBag({r2})
    /\ response' = NoResponse
    /\ UNCHANGED overrides

\* the handler returns or raises: the response goes out
Finish(r, op, code, ref) ==
    /\ req' = req (-) SetToBag({r})
    /\ response' = Response(op, code, ref)
    /\ UNCHANGED overrides

\* refused before any session work is kept
Refuse(op, code, ref) ==
    /\ BagCardinality(req) < MaxConc
    /\ req' = req
    /\ response' = Response(op, code, ref)

AuditLog(user_id, action, command_id, details) ==
    [user_id |-> user_id, action |-> action, command_id |-> command_id,
     details |-> details]

Command(text, user_id, rule_id, status, result) ==
    [command_text |-> text, user_id |-> user_id, rule_id |-> rule_id,
     status |-> status, credits_deducted |-> 0, result |-> result,
     executed_at |-> FALSE]

\* an ApprovalRequest that does not name its requester
ApprovalRequestOfNobody(command_id, requested_by) ==
    [command_id |-> command_id, requested_by |-> None,
     status |-> "pending", approved_by |-> None, reviewed_at |-> FALSE]

ApprovalRequest(command_id, requested_by) ==
    [command_id |-> command_id, requested_by |-> requested_by,
     status |-> "pending", approved_by |-> None, reviewed_at |-> FALSE]

\* ------------------------------------------------- execution step
\* an execution that leaves the Command's status as it was staged
ExecutedCommandStatusKept(c) ==
    [c EXCEPT !.credits_deducted = 1,
              !.result = format_command_result(c.command_text, "SUCCESS"),
              !.executed_at = TRUE]

\* execute_command, the columns it sets on the Command
ExecutedCommand(c) ==
    [c EXCEPT !.credits_deducted = 1,
              !.status = EXECUTED,
              !.result = format_command_result(c.command_text, "SUCCESS"),
              !.executed_at = TRUE]

\* an execution that costs nothing
DeductedNothing(ucredits) == ucredits

\* the balance execute_command writes back: the session's value less one
Deducted(ucredits) == ucredits - 1

\* execute_command without its credit check (lines 71-72 left out)
execute_command_unchecked(cid, fresh, uid, ucredits) ==
    /\ credits' = [credits EXCEPT ![uid] = Deducted(ucredits)]
    /\ commands' = IF cid > Len(commands)
                   THEN Append(commands, ExecutedCommand(fresh))
                   ELSE [commands EXCEPT ![cid] = ExecutedCommand(@)]
    /\ audit' = Append(audit, AuditLog(uid, "COMMAND_EXECUTED", cid, <<1>>))

\* execute_command(command, user, db) up to and including db.commit():
\* cid is the command's row id, fresh the flushed, uncommitted row of the
\* direct path (the stored row on the approval path), uid and ucredits
\* the user as loaded in this session.  The ORM writes changed columns only.
execute_command(cid, fresh, uid, ucredits) ==
    /\ ucredits > 0
    /\ credits' = [credits EXCEPT ![uid] = Deducted(ucredits)]
    /\ commands' = IF cid > Len(commands)
                   THEN Append(commands, ExecutedCommand(fresh))
                   ELSE [commands EXCEPT ![cid] = ExecutedCommand(@)]
    /\ audit' = Append(audit, AuditLog(uid, "COMMAND_EXECUTED", cid, <<1>>))

\* ------------------------------------------------ POST /commands/
\* submissions that have not yet stored their Command
Submitting == IF [pc |-> "submit"] \in {[pc |-> r.pc] : r \in InFlight}
              THEN BagCardinality(req) - Cardinality({r \in InFlight : r.pc # "submit"})
              ELSE 0

\* get_current_user loads the caller into the request's session
SubmitBegin(u, t) ==
    /\ Len(commands) + Submitting < MaxCommands
    /\ Begin([Session("submit", u) EXCEPT !.text = t, !.ucredits = credits[u]])
    /\ UNCHANGED <<db, overrides>>

\* lines 121-133: validation failed, the REJECTED row is committed
SubmitInvalid(r) ==
    LET v == validate_command(r.text)
        cid == Len(commands) + 1
    IN
    /\ r.pc = "submit"
    /\ ~v[1]
    /\ \/ /\ commands' = Append(commands,
                Command(r.text, r.actor, None, REJECTED, <<"Invalid command", v[2]>>))
          /\ Continue(r, [r EXCEPT !.pc = "submit_audit", !.cid = cid,
                !.staged = <<AuditLog(r.actor, "COMMAND_REJECTED", cid,
                                      <<"VALIDATION_ERROR", v[2]>>)>>])
          /\ UNCHANGED <<credits, approvals, audit, rules, users>>
       \/ /\ Finish(r, "submit", 500, None)
          /\ UNCHANGED db

\* lines 150-155: payment required, nothing is stored
SubmitNoCredits(r) ==
    /\ r.pc = "submit"
    /\ validate_command(r.text)[1]
    /\ r.ucredits <= 0
    /\ Finish(r, "submit", 402, None)
    /\ UNCHANGED db

\* the admission without its credit check (lines 150-155 left out)
AdmissibleUnpaid(r) ==
    /\ r.pc = "submit"
    /\ validate_command(r.text)[1]

\* past validation and past the credit check
Admissible(r) ==
    /\ r.pc = "submit"
    /\ validate_command(r.text)[1]
    /\ r.ucredits > 0

\* lines 168-175: AUTO_REJECT, the REJECTED row is committed
SubmitReject(r) ==
    LET m == match_command_against_rules(r.text, rules)
        cid == Len(commands) + 1
        rule == RuleById(rules, m[1])
        shown == IF rule.description # NoText THEN <<rule.description>>
                 ELSE <<rule.pattern>>
    IN
    /\ Admissible(r)
    /\ m[2] = AUTO_REJECT
    /\ \/ /\ commands' = Append(commands,
                Command(r.text, r.actor, m[1], REJECTED,
                        <<"Command rejected by rule">> \o shown))
          /\ Continue(r, [r EXCEPT !.pc = "submit_audit", !.cid = cid,
                !.staged = <<AuditLog(r.actor, "COMMAND_REJECTED", cid,
                                      <<"AUTO_REJECT", m[1]>>)>>])
          /\ UNCHANGED <<credits, approvals, audit, rules, users>>
       \/ /\ Finish(r, "submit", 500, None)
          /\ UNCHANGED db

\* a direct admission whose failed execution keeps the flushed row
SubmitExecuteKeepsFlushed(r) ==
    LET m == match_command_against_rules(r.text, rules)
        cid == Len(commands) + 1
        fresh == Command(r.text, r.actor, m[1], ACCEPTED, <<>>)
    IN
    /\ Admissible(r)
    /\ m[2] = AUTO_ACCEPT \/ m[1] = None
    /\ \/ /\ execute_command(cid, fresh, r.actor, r.ucredits)
          /\ Finish(r, "submit", 201, cid)
          /\ UNCHANGED <<approvals, rules, users>>
       \/ /\ Finish(r, "submit", IF r.ucredits > 0 THEN 500 ELSE 402, None)
          /\ commands' = Append(commands, fresh)
          /\ UNCHANGED <<credits, approvals, audit, rules, users>>

\* lines 193-209: AUTO_ACCEPT or no rule, flush and execute in one commit
SubmitExecute(r) ==
    LET m == match_command_against_rules(r.text, rules)
        cid == Len(commands) + 1
        fresh == Command(r.text, r.actor, m[1], ACCEPTED, <<>>)
    IN
    /\ Admissible(r)
    /\ m[2] = AUTO_ACCEPT \/ m[1] = None
    /\ \/ /\ execute_command(cid, fresh, r.actor, r.ucredits)
          /\ Finish(r, "submit", 201, cid)
          /\ UNCHANGED <<approvals, rules, users>>
       \/ /\ Finish(r, "submit", IF r.ucredits > 0 THEN 500 ELSE 402, None)
          /\ UNCHANGED db

\* a held submission that stores its Command without an ApprovalRequest
SubmitPendingWithoutRequest(r) ==
    LET m == match_command_against_rules(r.text, rules)
        cid == Len(commands) + 1
    IN
    /\ Admissible(r)
    /\ m[2] = REQUIRE_APPROVAL
    /\ \/ /\ commands' = Append(commands,
                Command(r.text, r.actor, m[1], PENDING_APPROVAL,
                        <<"Command requires admin approval">>))
          /\ Continue(r, [r EXCEPT !.pc = "submit_audit", !.cid = cid,
                !.staged = <<AuditLog(r.actor, "COMMAND_PENDING_APPROVAL", cid,
                                      <<m[1]>>)>>])
          /\ UNCHANGED <<credits, approvals, audit, rules, users>>
       \/ /\ Finish(r, "submit", 500, None)
          /\ UNCHANGED db

\* lines 211-227: REQUIRE_APPROVAL, Command and ApprovalRequest in one commit
SubmitPending(r) ==
    LET m == match_command_against_rules(r.text, rules)
        cid == Len(commands) + 1
    IN
    /\ Admissible(r)
    /\ m[2] = REQUIRE_APPROVAL
    /\ \/ /\ commands' = Append(commands,
                Command(r.text, r.actor, m[1], PENDING_APPROVAL,
                        <<"Command requires admin approval">>))
          /\ approvals' = Append(approvals, ApprovalRequest(cid, r.actor))
          /\ Continue(r, [r EXCEPT !.pc = "submit_audit", !.cid = cid,
                !.staged = <<AuditLog(r.actor, "COMMAND_PENDING_APPROVAL", cid,
                                      <<m[1]>>)>>])
          /\ UNCHANGED <<credits, audit, rules, users>>
       \/ /\ Finish(r, "submit", 500, None)
          /\ UNCHANGED db

\* the answer without the audit entry
SubmitAuditSkipped(r) ==
    /\ r.pc = "submit_audit"
    /\ Finish(r, "submit", 201, r.cid)
    /\ UNCHANGED db

\* lines 135-148, 177-191, 229-242: the audit entry, in a commit of its own
SubmitAudit(r) ==
    /\ r.pc = "submit_audit"
    /\ \/ /\ audit' = audit \o r.staged
          /\ Finish(r, "submit", 201, r.cid)
          /\ UNCHANGED <<credits, commands, approvals, rules, users>>
       \/ /\ Finish(r, "submit", 500, None)
          /\ UNCHANGED db

\* ------------------------------------- POST /approvals/{id}/review
ApprovalIds == 1..(MaxCommands + 1)
Decisions   == {"approve", "reject"}
Reasons     == {"not allowed"}

\* the lookup without its status filter (line 60 left out)
AnyApproval(a) == a \in DOMAIN approvals

\* the row the handler's first query returns: id = a AND status = pending
PendingApproval(a) == a \in DOMAIN approvals /\ approvals[a].status = "pending"

\* lines 47-74: get_admin_user, then the pending ApprovalRequest, its
\* Command and the Command's user are loaded into the session
ReviewBegin(u, a, d, why) ==
    /\ UNCHANGED <<db, overrides>>
    /\ IF role[u] # ADMIN THEN Refuse("review", 403, a)
       ELSE IF ~PendingApproval(a) THEN Refuse("review", 404, a)
       ELSE LET cid == approvals[a].command_id
                uid == commands[cid].user_id
            IN Begin([Session("review", u) EXCEPT
                    !.aid = a, !.decision = d, !.reason = why, !.cid = cid,
                    !.uid = uid, !.ucredits = credits[uid]])

\* a review that does not record its reviewer
ReviewedByNobody(ap, status, admin) ==
    [ap EXCEPT !.status = status, !.reviewed_at = TRUE]

\* the review columns both decisions set on the ApprovalRequest
Reviewed(ap, status, admin) ==
    [ap EXCEPT !.status = status, !.approved_by = admin, !.reviewed_at = TRUE]

\* lines 76-84 with execute_command's commit (the first commit of an
\* approve), and the ValueError / Exception handlers of lines 106-111
ReviewApprove(r) ==
    /\ r.pc = "review"
    /\ r.decision = "approve"
    /\ \/ /\ execute_command(r.cid, commands[r.cid], r.uid, r.ucredits)
          /\ approvals' = [approvals EXCEPT ![r.aid] = Reviewed(@, "approved", r.actor)]
          /\ Continue(r, [r EXCEPT !.pc = "approve_audit",
                !.staged = <<AuditLog(r.actor, "COMMAND_APPROVED", r.cid,
                                      <<r.aid>>)>>])
          /\ UNCHANGED <<rules, users>>
       \/ /\ Finish(r, "review", IF r.ucredits > 0 THEN 500 ELSE 402, r.aid)
          /\ UNCHANGED db

\* lines 86-104, 109-111: the COMMAND_APPROVED entry, in a second commit
ReviewApproveAudit(r) ==
    /\ r.pc = "approve_audit"
    /\ \/ /\ audit' = audit \o r.staged
          /\ Finish(r, "review", 200, r.aid)
          /\ UNCHANGED <<credits, commands, approvals, rules, users>>
       \/ /\ Finish(r, "review", 500, r.aid)
          /\ UNCHANGED db

\* a reject that leaves the Command's status alone
RejectedCommandKept(c, why) ==
    [c EXCEPT !.result = <<"Rejected by admin",
                           IF why # NoText THEN why ELSE "No reason provided">>]

\* the columns a reject sets on the Command
RejectedCommand(c, why) ==
    [c EXCEPT !.status = REJECTED,
              !.result = <<"Rejected by admin",
                           IF why # NoText THEN why ELSE "No reason provided">>]

\* lines 113-141: reject, one commit
ReviewReject(r) ==
    /\ r.pc = "review"
    /\ r.decision = "reject"
    /\ \/ /\ approvals' = [approvals EXCEPT ![r.aid] = Reviewed(@, "rejected", r.actor)]
          /\ commands' = [commands EXCEPT ![r.cid] = RejectedCommand(@, r.reason)]
          /\ audit' = Append(audit, AuditLog(r.actor, "COMMAND_REJECTED_BY_ADMIN",
                                             r.cid, <<r.aid, r.reason>>))
          /\ Finish(r, "review", 200, r.aid)
          /\ UNCHANGED <<credits, rules, users>>
       \/ /\ Finish(r, "review", 500, r.aid)
          /\ UNCHANGED db

\* ------------------------------------ PATCH /users/{id}/credits
TargetIds      == {MemberId, 3}
OverrideValues == {-1, 1}

\* lines 128-140: get_admin_user, then the target user is loaded
CreditsBegin(u, target, value) ==
    /\ UNCHANGED db
    /\ IF role[u] # ADMIN THEN Refuse("credits", 403, target) /\ UNCHANGED overrides
       ELSE IF target \notin DOMAIN credits
       THEN Refuse("credits", 404, target) /\ UNCHANGED overrides
       ELSE /\ overrides < MaxOverrides
            /\ overrides' = overrides + 1
            /\ Begin([Session("credits", u) EXCEPT !.target = target,
                    !.value = value, !.ucredits = credits[target]])

\* lines 141-142: the new balance is committed (an attribute set to the
\* value it was loaded with is no change, and no UPDATE is emitted)
CreditsCommit(r) ==
    /\ r.pc = "credits"
    /\ \/ /\ credits' = IF r.value = r.ucredits THEN credits
                        ELSE [credits EXCEPT ![r.target] = r.value]
          /\ Continue(r, [r EXCEPT !.pc = "credits_audit",
                !.staged = <<AuditLog(r.actor, "CREDITS_UPDATED", None,
                                      <<r.target, r.ucredits, r.value>>)>>])
          /\ UNCHANGED <<commands, approvals, audit, rules, users>>
       \/ /\ Finish(r, "credits", 500, r.target)
          /\ UNCHANGED db

\* an override whose entry replaces the log
CreditsAuditRewriting(r) ==
    /\ r.pc = "credits_audit"
    /\ audit' = r.staged
    /\ Finish(r, "credits", 200, r.target)
    /\ UNCHANGED <<credits, commands, approvals, rules, users>>

\* lines 144-157: the CREDITS_UPDATED entry, in a second commit
CreditsAudit(r) ==
    /\ r.pc = "credits_audit"
    /\ \/ /\ audit' = audit \o r.staged
          /\ Finish(r, "credits", 200, r.target)
          /\ UNCHANGED <<credits, commands, approvals, rules, users>>
       \/ /\ Finish(r, "credits", 500, r.target)
          /\ UNCHANGED db

\* ------------------------------------------------------ specification
\* submissions and reviews
NextCore ==
    \/ \E u \in Submitters, t \in Texts : SubmitBegin(u, t)
    \/ \E r \in InFlight : SubmitInvalid(r)
    \/ \E r \in InFlight : SubmitNoCredits(r)
    \/ \E r \in InFlight : SubmitReject(r)
    \/ \E r \in InFlight : SubmitExecute(r)
    \/ \E r \in InFlight : SubmitPending(r)
    \/ \E r \in InFlight : SubmitAudit(r)
    \/ \E u \in Reviewers, a \in ApprovalIds, d \in Decisions, why \in Reasons :
            ReviewBegin(u, a, d, why)
    \/ \E r \in InFlight : ReviewApprove(r)
    \/ \E r \in InFlight : ReviewApproveAudit(r)
    \/ \E r \in InFlight : ReviewReject(r)

\* the admin credit override
NextCredits ==
    \/ \E u \in Reviewers, target \in TargetIds, value \in OverrideValues :
            CreditsBegin(u, target, value)
    \/ \E r \in InFlight : CreditsCommit(r)
    \/ \E r \in InFlight : CreditsAudit(r)

Next == NextCore \/ NextCredits

Spec == Init /\ [][Next]_vars

\* the gateway while no administrator overrides a balance
SpecCore == Init /\ [][NextCore]_vars

\* the step a worker takes for the request r it is serving
Handle(r) ==
    \/ SubmitInvalid(r) \/ SubmitNoCredits(r) \/ SubmitReject(r)
    \/ SubmitExecute(r) \/ SubmitPending(r) \/ SubmitAudit(r)
    \/ ReviewApprove(r) \/ ReviewApproveAudit(r) \/ ReviewReject(r)

\* the commit of a review of ApprovalRequest a goes through
ReviewStored(a) ==
    \E r \in InFlight :
        /\ r.aid = a
        /\ ReviewApprove(r) \/ ReviewReject(r)
        /\ approvals' # approvals

\* a worker runs the handler it has started up to its response, and the
\* database does not fail every commit of the reviews of one request
Progress ==
    /\ WF_vars(\E r \in InFlight : Handle(r))
    /\ \A a \in 1..MaxCommands : SF_vars(ReviewStored(a))

\* the gateway without overrides, its workers and its database making progress
SpecLive == Init /\ [][NextCore]_vars /\ Progress

\* a single worker: a request is taken up only when none is in flight
NextSeq ==
    /\ Next
    /\ req # EmptyBag => \E r \in InFlight : CopiesIn(r, req') < CopiesIn(r, req)

SpecSeq == Init /\ [][NextSeq]_vars

\* the admission pipeline over any rules table, one submission at a time
InitMatch ==
    /\ credits = [u \in UserIds |-> InitCredits]
    /\ commands = <<>>
    /\ approvals = <<>>
    /\ audit = <<>>
    /\ rules \in RuleHeaps
    /\ users = SeedUsers
    /\ req = EmptyBag
    /\ response = NoResponse
    /\ overrides = 0

NextMatch ==
    \/ \E u \in Submitters, t \in MatchTexts : req = EmptyBag /\ SubmitBegin(u, t)
    \/ \E r \in InFlight : SubmitInvalid(r)
    \/ \E r \in InFlight : SubmitNoCredits(r)
    \/ \E r \in InFlight : SubmitReject(r)
    \/ \E r \in InFlight : SubmitExecute(r)
    \/ \E r \in InFlight : SubmitPending(r)
    \/ \E r \in InFlight : SubmitAudit(r)

SpecMatch == InitMatch /\ [][NextMatch]_vars

\* the characters of the texts the validator is given: a letter, the three
\* operators, a blank, a tab, and two control characters, one of them
\* whitespace to str.strip()
ValidatorChars == {"a"} \cup OperatorChars \cup WhitespaceChars \cup ControlChars

\* command_text has min_length=1 (schemas.py:78)
ValidatorTexts ==
    UNION {[1..n -> ValidatorChars] : n \in 1..MaxTextLen}

\* one submission of any such text
NextValidate ==
    \/ \E u \in Submitters, t \in ValidatorTexts :
            commands = <<>> /\ req = EmptyBag /\ SubmitBegin(u, t)
    \/ \E r \in InFlight : SubmitInvalid(r)
    \/ \E r \in InFlight : SubmitExecute(r)
    \/ \E r \in InFlight : SubmitAudit(r)

SpecValidate == Init /\ [][NextValidate]_vars

\* --------------------------------------------------- authentication
\* the X-API-Key header of a request: not sent, sent empty, a key no user
\* has, the member's key, the administrator's key
NoHeader    == "(no header)"
Credentials == {NoHeader, "", "stranger-key", "member-key", "admin-key"}

\* generate_api_key for the user row n: a key no other row has
generate_api_key(n) == IF n = 3 THEN "key-3" ELSE IF n = 4 THEN "key-4" ELSE "key-5"

\* get_current_user: <<status, user id>>, status 0 when the caller is
\* resolved.  x_api_key is declared Header(...), a required parameter: a
\* request without the header is refused with 422 and the body does not run.
get_current_user(x_api_key) ==
    IF x_api_key = NoHeader THEN <<422, None>>
    ELSE IF x_api_key = "" THEN <<401, None>>
    ELSE IF \A u \in DOMAIN users : users[u].api_key # x_api_key THEN <<401, None>>
    ELSE <<0, CHOOSE u \in DOMAIN users : users[u].api_key = x_api_key>>

\* get_admin_user, given what get_current_user returned
get_admin_user(current_user) ==
    IF current_user[1] # 0 THEN current_user
    ELSE IF users[current_user[2]].role # ADMIN THEN <<403, None>>
    ELSE current_user

\* A response refused by a dependency is the same on every route.
\* POST /commands/ with its dependencies
SubmitCall(h, t) ==
    LET cur == get_current_user(h) IN
    IF cur[1] # 0
    THEN Refuse("auth", cur[1], None) /\ UNCHANGED <<db, overrides>>
    ELSE Len(commands) < MaxCreated /\ SubmitBegin(cur[2], t)

\* POST /approvals/{approval_id}/review with its dependencies
ReviewCall(h, a, d, why) ==
    LET cur == get_current_user(h) IN
    IF cur[1] # 0
    THEN Refuse("auth", cur[1], None) /\ UNCHANGED <<db, overrides>>
    ELSE ReviewBegin(cur[2], a, d, why)

\* PATCH /users/{user_id}/credits with its dependencies
CreditsCall(h, target, value) ==
    LET cur == get_current_user(h) IN
    IF cur[1] # 0
    THEN Refuse("auth", cur[1], None) /\ UNCHANGED <<db, overrides>>
    ELSE CreditsBegin(cur[2], target, value)

\* the handlers that only query: those behind get_admin_user and those
\* behind get_current_user
AdminReads == {"list_pending_approvals", "list_users", "get_audit_logs",
               "get_user_audit_logs"}
UserReads  == {"list_commands", "get_command", "list_rules",
               "check_all_conflicts", "get_rule", "get_current_user_info",
               "get_user_stats", "get_user_commands"}

\* a query by id that finds no row (get_command looks among the caller's
\* own Commands)
Found404(op, u, id) ==
    CASE op = "get_user_audit_logs" -> id \notin DOMAIN credits
      [] op = "get_rule" -> \A k \in DOMAIN rules : rules[k].id # id
      [] op = "get_command" ->
             id \notin DOMAIN commands \/ commands[id].user_id # u
      [] OTHER -> FALSE

ReadCall(h, op, id) ==
    LET cur == IF op \in AdminReads THEN get_admin_user(get_current_user(h))
               ELSE get_current_user(h)
    IN
    /\ IF cur[1] # 0 THEN Refuse("auth", cur[1], None)
       ELSE Refuse("read", IF Found404(op, cur[2], id) THEN 404 ELSE 200, None)
    /\ UNCHANGED <<db, overrides>>

\* an administrator's change is accepted (the run holds MaxOverrides of
\* them, credit overrides included)
Changing == overrides < MaxOverrides /\ overrides' = overrides + 1

\* ------------------------------------------------------ POST /rules/
\* the rules an administrator is asked to create: the pattern of rule 3
\* with another action, and a pattern that does not compile
RuleInputs ==
    { [pattern |-> Pat(TRUE, <<"l", "s">>), action |-> AUTO_REJECT,
       description |-> "No listing", priority |-> 0],
      [pattern |-> BadPat, action |-> AUTO_REJECT,
       description |-> NoText, priority |-> 0] }

\* detect_rule_conflicts: the rules with this pattern and another action
detect_rule_conflicts(pattern, action, exclude_rule_id) ==
    {k \in DOMAIN rules :
        /\ rules[k].id # exclude_rule_id
        /\ rules[k].pattern = pattern
        /\ rules[k].action # action}

\* the id the storage gives a new rules row
NextRuleId ==
    IF rules = <<>> THEN 1
    ELSE 1 + (CHOOSE m \in {rules[k].id : k \in DOMAIN rules} :
                 \A k \in DOMAIN rules : rules[k].id <= m)

\* a create_rule whose body is not validated
RuleCreateCallUnvalidated(h, data) ==
    LET cur == get_admin_user(get_current_user(h)) IN
    IF cur[1] # 0
    THEN Refuse("auth", cur[1], None) /\ UNCHANGED <<db, overrides>>
    ELSE /\ Len(rules) < Len(SeedRules) + MaxCreated
         /\ Changing
         /\ Begin([Session("create_rule", cur[2]) EXCEPT !.body = data,
                 !.value = Cardinality(
                     detect_rule_conflicts(data.pattern, data.action, None))])
         /\ UNCHANGED db

\* lines 40-51: get_admin_user, RuleCreate validation, the conflicts query
RuleCreateCall(h, data) ==
    LET cur == get_admin_user(get_current_user(h)) IN
    IF cur[1] # 0
    THEN Refuse("auth", cur[1], None) /\ UNCHANGED <<db, overrides>>
    ELSE IF ~data.pattern.ok
    THEN Refuse("create_rule", 422, None) /\ UNCHANGED <<db, overrides>>
    ELSE /\ Len(rules) < Len(SeedRules) + MaxCreated
         /\ Changing
         /\ Begin([Session("create_rule", cur[2]) EXCEPT !.body = data,
                 !.value = Cardinality(
                     detect_rule_conflicts(data.pattern, data.action, None))])
         /\ UNCHANGED db

\* lines 53-64: the rule is committed
RuleCreateCommit(r) ==
    LET id == NextRuleId IN
    /\ r.pc = "create_rule"
    /\ \/ /\ rules' = Append(rules, Rule(id, r.body.pattern, r.body.action,
                                         r.body.priority, r.body.description))
          /\ Continue(r, [r EXCEPT !.pc = "create_rule_audit", !.target = id,
                !.staged = <<AuditLog(r.actor, "RULE_CREATED", None,
                    <<id, r.body.pattern, r.body.action, r.value > 0, r.value>>)>>])
          /\ UNCHANGED <<credits, commands, approvals, audit, users>>
       \/ /\ Finish(r, "create_rule", 500, None)
          /\ UNCHANGED db

\* lines 66-81: the RULE_CREATED entry, in a second commit
RuleCreateAudit(r) ==
    /\ r.pc = "create_rule_audit"
    /\ \/ /\ audit' = audit \o r.staged
          /\ Finish(r, "create_rule", 201, r.target)
          /\ UNCHANGED <<credits, commands, approvals, rules, users>>
       \/ /\ Finish(r, "create_rule", 500, r.target)
          /\ UNCHANGED db

\* ------------------------------------------------ PUT /rules/{rule_id}
RuleIds == {1, 9}

\* the columns a RuleUpdate body gives, and their values
RuleUpdates ==
    { [given |-> {"pattern", "action"}, pattern |-> Pat(TRUE, <<"r", "m">>),
       action |-> AUTO_ACCEPT, description |-> NoText, priority |-> 0],
      [given |-> {"pattern"}, pattern |-> BadPat, action |-> NoAction,
       description |-> NoText, priority |-> 0] }

RuleRow(id) == CHOOSE k \in DOMAIN rules : rules[k].id = id

\* lines 136-146: get_admin_user, RuleUpdate validation, the rule is loaded
RuleUpdateCall(h, rule_id, data) ==
    LET cur == get_admin_user(get_current_user(h)) IN
    /\ UNCHANGED db
    /\ IF cur[1] # 0 THEN Refuse("auth", cur[1], None) /\ UNCHANGED overrides
       ELSE IF "pattern" \in data.given /\ ~data.pattern.ok
       THEN Refuse("update_rule", 422, rule_id) /\ UNCHANGED overrides
       ELSE IF \A k \in DOMAIN rules : rules[k].id # rule_id
       THEN Refuse("update_rule", 404, rule_id) /\ UNCHANGED overrides
       ELSE /\ Changing
            /\ Begin([Session("update_rule", cur[2]) EXCEPT !.target = rule_id,
                    !.body = data])

\* lines 148-159: the given columns are set and committed
RuleUpdateCommit(r) ==
    LET d == r.body IN
    /\ r.pc = "update_rule"
    /\ \/ /\ \E k \in DOMAIN rules : rules[k].id = r.target
          /\ LET k == RuleRow(r.target)
                 new == [rules[k] EXCEPT
                    !.pattern = IF "pattern" \in d.given THEN d.pattern ELSE @,
                    !.action = IF "action" \in d.given THEN d.action ELSE @,
                    !.description =
                        IF "description" \in d.given THEN d.description ELSE @,
                    !.priority = IF "priority" \in d.given THEN d.priority ELSE @]
             IN
             /\ rules' = [rules EXCEPT ![k] = new]
             /\ Continue(r, [r EXCEPT !.pc = "update_rule_audit",
                   !.staged = <<AuditLog(r.actor, "RULE_UPDATED", None,
                                   <<r.target, new.pattern, new.action>>)>>])
          /\ UNCHANGED <<credits, commands, approvals, audit, users>>
       \/ /\ Finish(r, "update_rule", 500, r.target)
          /\ UNCHANGED db

\* lines 161-174: the RULE_UPDATED entry, in a second commit
RuleUpdateAudit(r) ==
    /\ r.pc = "update_rule_audit"
    /\ \/ /\ audit' = audit \o r.staged
          /\ Finish(r, "update_rule", 200, r.target)
          /\ UNCHANGED <<credits, commands, approvals, rules, users>>
       \/ /\ Finish(r, "update_rule", 500, r.target)
          /\ UNCHANGED db

\* --------------------------------------------- DELETE /rules/{rule_id}
\* lines 177-186: get_admin_user, the rule is loaded
RuleDeleteCall(h, rule_id) ==
    LET cur == get_admin_user(get_current_user(h)) IN
    /\ UNCHANGED db
    /\ IF cur[1] # 0 THEN Refuse("auth", cur[1], None) /\ UNCHANGED overrides
       ELSE IF \A k \in DOMAIN rules : rules[k].id # rule_id
       THEN Refuse("delete_rule", 404, rule_id) /\ UNCHANGED overrides
       ELSE /\ Changing
            /\ Begin([Session("delete_rule", cur[2]) EXCEPT !.target = rule_id,
                    !.body = rules[RuleRow(rule_id)]])

\* lines 188-203: the RULE_DELETED entry and the deletion, in one commit
RuleDeleteCommit(r) ==
    /\ r.pc = "delete_rule"
    /\ \/ /\ \E k \in DOMAIN rules : rules[k].id = r.target
          /\ rules' = SelectSeq(rules, LAMBDA x : x.id # r.target)
          /\ audit' = Append(audit, AuditLog(r.actor, "RULE_DELETED", None,
                          <<r.target, r.body.pattern, r.body.action>>))
          /\ Finish(r, "delete_rule", 200, r.target)
          /\ UNCHANGED <<credits, commands, approvals, users>>
       \/ /\ Finish(r, "delete_rule", 500, r.target)
          /\ UNCHANGED db

\* ------------------------------------------------------ POST /users/
\* the usernames an administrator asks for: a new one, a taken one, one
\* shorter than min_length=3
Usernames  == {"bob", "member", "al"}
ShortNames == {"al"}

\* lines 18-31: get_admin_user, UserCreate validation, the username query
UserCreateCall(h, username, r) ==
    LET cur == get_admin_user(get_current_user(h)) IN
    /\ UNCHANGED db
    /\ IF cur[1] # 0 THEN Refuse("auth", cur[1], None) /\ UNCHANGED overrides
       ELSE IF username \in ShortNames
       THEN Refuse("create_user", 422, None) /\ UNCHANGED overrides
       ELSE IF \E u \in DOMAIN users : users[u].username = username
       THEN Refuse("create_user", 400, None) /\ UNCHANGED overrides
       ELSE /\ Len(users) < Len(SeedUsers) + MaxCreated
            /\ Changing
            /\ Begin([Session("create_user", cur[2]) EXCEPT
                    !.body = User(username, generate_api_key(Len(users) + 1), r)])

\* lines 33-46: the user is committed with the starting balance
UserCreateCommit(r) ==
    LET id == Len(users) + 1 IN
    /\ r.pc = "create_user"
    /\ \/ /\ users' = Append(users, r.body)
          /\ credits' = Append(credits, InitCredits)
          /\ Continue(r, [r EXCEPT !.pc = "create_user_audit", !.target = id,
                !.staged = <<AuditLog(r.actor, "USER_CREATED", None,
                                <<id, r.body.username, r.body.role>>)>>])
          /\ UNCHANGED <<commands, approvals, audit, rules>>
       \/ /\ Finish(r, "create_user", 500, None)
          /\ UNCHANGED db

\* lines 48-72: the USER_CREATED entry, in a second commit
UserCreateAudit(r) ==
    /\ r.pc = "create_user_audit"
    /\ \/ /\ audit' = audit \o r.staged
          /\ Finish(r, "create_user", 201, r.target)
          /\ UNCHANGED <<credits, commands, approvals, rules, users>>
       \/ /\ Finish(r, "create_user", 500, r.target)
          /\ UNCHANGED db

\* every operation of the gateway, called with any X-API-Key header, one
\* request at a time
NextAuth ==
    \/ \E h \in Credentials, t \in Texts : req = EmptyBag /\ SubmitCall(h, t)
    \/ \E r \in InFlight : SubmitInvalid(r)
    \/ \E r \in InFlight : SubmitNoCredits(r)
    \/ \E r \in InFlight : SubmitReject(r)
    \/ \E r \in InFlight : SubmitExecute(r)
    \/ \E r \in InFlight : SubmitPending(r)
    \/ \E r \in InFlight : SubmitAudit(r)
    \/ \E h \in Credentials, a \in ApprovalIds, d \in Decisions, why \in Reasons :
            req = EmptyBag /\ ReviewCall(h, a, d, why)
    \/ \E r \in InFlight : ReviewApprove(r)
    \/ \E r \in InFlight : ReviewApproveAudit(r)
    \/ \E r \in InFlight : ReviewReject(r)
    \/ \E h \in Credentials, target \in TargetIds, value \in OverrideValues :
            req = EmptyBag /\ CreditsCall(h, target, value)
    \/ \E r \in InFlight : CreditsCommit(r)
    \/ \E r \in InFlight : CreditsAudit(r)
    \/ \E h \in Credentials, op \in AdminReads \cup UserReads, id \in RuleIds :
            req = EmptyBag /\ ReadCall(h, op, id)
    \/ \E h \in Credentials, data \in RuleInputs :
            req = EmptyBag /\ RuleCreateCall(h, data)
    \/ \E r \in InFlight : RuleCreateCommit(r)
    \/ \E r \in InFlight : RuleCreateAudit(r)
    \/ \E h \in Credentials, id \in RuleIds, data \in RuleUpdates :
            req = EmptyBag /\ RuleUpdateCall(h, id, data)
    \/ \E r \in InFlight : RuleUpdateCommit(r)
    \/ \E r \in InFlight : RuleUpdateAudit(r)
    \/ \E h \in Credentials, id \in RuleIds : req = EmptyBag /\ RuleDeleteCall(h, id)
    \/ \E r \in InFlight : RuleDeleteCommit(r)
    \/ \E h \in Credentials, name \in Usernames, r \in {MEMBER} :
            req = EmptyBag /\ UserCreateCall(h, name, r)
    \/ \E r \in InFlight : UserCreateCommit(r)
    \/ \E r \in InFlight : UserCreateAudit(r)

SpecAuth == Init /\ [][NextAuth]_vars

\* the reasons a review may carry: a text, or none (reason: null)
ReviewReasons == Reasons \cup {NoText}

\* submissions and reviews, one request at a time, reviews with or
\* without a reason
NextReview ==
    \/ \E u \in Submitters, t \in Texts : req = EmptyBag /\ SubmitBegin(u, t)
    \/ \E r \in InFlight : SubmitInvalid(r)
    \/ \E r \in InFlight : SubmitNoCredits(r)
    \/ \E r \in InFlight : SubmitReject(r)
    \/ \E r \in InFlight : SubmitExecute(r)
    \/ \E r \in InFlight : SubmitPending(r)
    \/ \E r \in InFlight : SubmitAudit(r)
    \/ \E u \in Reviewers, a \in ApprovalIds, d \in Decisions, why \in ReviewReasons :
            req = EmptyBag /\ ReviewBegin(u, a, d, why)
    \/ \E r \in InFlight : ReviewApprove(r)
    \/ \E r \in InFlight : ReviewApproveAudit(r)
    \/ \E r \in InFlight : ReviewReject(r)

SpecReview == Init /\ [][NextReview]_vars

\* ==================================================== properties
\* request r took this step
Moved(r) == CopiesIn(r, req') < CopiesIn(r, req)

\* request r was accepted in this step
Accepted(r) == CopiesIn(r, req') > CopiesIn(r, req)

\* audit entries of one kind that name command cid
Entries(kind, cid) ==
    {i \in DOMAIN audit : audit[i].action = kind /\ audit[i].command_id = cid}

\* ids of the user's commands that are EXECUTED
ExecutedOf(u) ==
    {i \in DOMAIN commands : commands[i].user_id = u /\ commands[i].status = EXECUTED}

\* C1: every stored Command has credits_deducted = 1 exactly when its
\* status is EXECUTED, and credits_deducted = 0 otherwise.
C1_DeductedIffExecuted ==
    \A i \in DOMAIN commands :
        /\ commands[i].credits_deducted \in {0, 1}
        /\ commands[i].credits_deducted = 1 <=> commands[i].status = EXECUTED

\* C2: without admin overrides every user's balance is the initial balance
\* less the number of that user's EXECUTED commands, so a user with n
\* credits never gets more than n commands executed.
C2_BalanceIsInitialLessExecuted ==
    \A u \in UserIds :
        /\ credits[u] = InitCredits - Cardinality(ExecutedOf(u))
        /\ Cardinality(ExecutedOf(u)) <= InitCredits

\* C3: a balance changes only in a step that executes a command of that
\* user, then by exactly -1 and not below zero; and every step that
\* executes a command lowers its user's balance by exactly 1.
C3_DecrementOnlyByExecution ==
    [][\A u \in UserIds :
          LET executes == \E i \in DOMAIN commands' :
                              /\ commands'[i].user_id = u
                              /\ commands'[i].status = EXECUTED
                              /\ i \in DOMAIN commands => commands[i].status # EXECUTED
          IN /\ credits'[u] # credits[u] =>
                    executes /\ credits'[u] = credits[u] - 1 /\ credits'[u] >= 0
             /\ executes => credits'[u] = credits[u] - 1
      ]_vars

\* the approver's session holds the requester's balance as stored when the
\* review began
ReviewLoadsRequester(r) ==
    /\ r.aid \in DOMAIN approvals
    /\ r.cid = approvals[r.aid].command_id
    /\ r.uid = commands[r.cid].user_id
    /\ r.ucredits = credits[r.uid]

\* C4: an approve-review whose requester has 0 or fewer credits is
\* answered 402 and changes nothing in the database: the ApprovalRequest,
\* the Command, the balances and the audit log stay as they were, and the
\* request is not left half done.
C4_ApproveWithoutCreditsChangesNothing ==
    [][\A r \in InFlight \cup BagToSet(req') :
          /\ (Accepted(r) /\ r.pc = "review") => ReviewLoadsRequester(r)
          /\ (Moved(r) /\ r.pc = "review" /\ r.decision = "approve" /\ r.ucredits <= 0) =>
                /\ response' = Response("review", 402, r.aid)
                /\ db' = db
                /\ req' = req (-) SetToBag({r})
      ]_vars

\* an approve-review has just been refused with 402 and its ApprovalRequest
\* is still pending, unreviewed
C4_Witness ==
    /\ response.op = "review" /\ response.code = 402
    /\ response.ref \in DOMAIN approvals
    /\ LET ap == approvals[response.ref] IN
          /\ ap.status = "pending" /\ ap.approved_by = None /\ ~ap.reviewed_at
          /\ commands[ap.command_id].status = PENDING_APPROVAL
          /\ commands[ap.command_id].credits_deducted = 0
          /\ credits[ap.requested_by] <= 0

\* C5: concurrent reviews of one ApprovalRequest are serialized: at most
\* one takes effect, the Command is executed and charged at most once, and
\* ApprovalRequest and Command never disagree.
C5_ReviewsSerialized ==
    \A a \in DOMAIN approvals :
        LET cid == approvals[a].command_id IN
        /\ Cardinality(Entries("COMMAND_EXECUTED", cid)
                       \cup Entries("COMMAND_REJECTED_BY_ADMIN", cid)) <= 1
        /\ approvals[a].status = "rejected" =>
              commands[cid].status = REJECTED /\ commands[cid].credits_deducted = 0
        /\ approvals[a].status = "approved" =>
              commands[cid].status = EXECUTED /\ commands[cid].credits_deducted = 1
        /\ approvals[a].status = "pending" =>
              commands[cid].status = PENDING_APPROVAL

\* the submission that stored command cid has not answered yet
StillSubmitting(cid) == \E r \in InFlight : r.pc = "submit_audit" /\ r.cid = cid

\* C6: every admission outcome is all or nothing: once a submission has
\* answered, a Command it stored has its audit entry, and an EXECUTED
\* Command has its COMMAND_EXECUTED entry and deduction.
C6_AdmissionAllOrNothing ==
    \A i \in DOMAIN commands :
        /\ StillSubmitting(i) \/ \E k \in DOMAIN audit : audit[k].command_id = i
        /\ commands[i].status = EXECUTED => Entries("COMMAND_EXECUTED", i) # {}

\* C7: an approve-review that answers with a failure (402 or 500) has been
\* rolled back as a whole: its ApprovalRequest is pending, its Command
\* PENDING_APPROVAL and not charged, and nothing it wrote is stored.
C7_FailedApproveRolledBack ==
    [][\A r \in InFlight :
          (/\ Moved(r) /\ r.decision = "approve"
           /\ response'.op = "review" /\ response'.code \in {402, 500}) =>
                /\ approvals'[r.aid].status = "pending"
                /\ commands'[r.cid].status = PENDING_APPROVAL
                /\ commands'[r.cid].credits_deducted = 0
                /\ Entries("COMMAND_EXECUTED", r.cid)' = {}
      ]_vars

\* C8: a review of an ApprovalRequest that is already approved or
\* rejected, or of an id that does not exist, is answered 404 and changes
\* nothing; only a pending ApprovalRequest is ever taken up for review.
C8_ReviewOfReviewedIsNotFound ==
    [][/\ \A r \in BagToSet(req') :
             (Accepted(r) /\ r.pc = "review") =>
                 r.aid \in DOMAIN approvals /\ approvals[r.aid].status = "pending"
       /\ \A u \in Reviewers, a \in ApprovalIds, d \in Decisions, why \in Reasons :
             (/\ ReviewBegin(u, a, d, why)
              /\ a \notin DOMAIN approvals \/ approvals[a].status # "pending") =>
                 /\ response' = Response("review", 404, a)
                 /\ db' = db
                 /\ req' = req
      ]_vars

\* a review of an ApprovalRequest that was already reviewed has just been
\* answered 404
C8_Witness ==
    /\ response.op = "review" /\ response.code = 404
    /\ response.ref \in DOMAIN approvals
    /\ approvals[response.ref].status \in {"approved", "rejected"}

\* C9: an ApprovalRequest that is approved or rejected never changes
\* status again.
C9_ApprovalTerminal ==
    [][\A a \in DOMAIN approvals :
          approvals[a].status \in {"approved", "rejected"} =>
              approvals'[a].status = approvals[a].status
      ]_vars

\* C10: a stored Command changes status only from PENDING_APPROVAL, to
\* EXECUTED or REJECTED; an EXECUTED or REJECTED Command keeps its status.
C10_CommandTerminal ==
    [][\A i \in DOMAIN commands :
          commands'[i].status # commands[i].status =>
              /\ commands[i].status = PENDING_APPROVAL
              /\ commands'[i].status \in {EXECUTED, REJECTED}
      ]_vars

\* ------------------------------------------------ admission outcomes
\* the text without its leading and trailing whitespace
Trimmed(t) ==
    LET inked == {k \in DOMAIN t : t[k] \notin WhitespaceChars} IN
    IF inked = {} THEN <<>>
    ELSE SubSeq(t, CHOOSE i \in inked : \A k \in inked : i <= k,
                   CHOOSE j \in inked : \A k \in inked : k <= j)

\* a text the Validator has to refuse
Malformed(t) ==
    LET s == Trimmed(t) IN
    \/ s = <<>>
    \/ \E k \in DOMAIN s : s[k] \in ControlChars
    \/ s[1] \in {";", "&", "|"} \/ s[Len(s)] \in {";", "&", "|"}
    \/ \E k \in 1..(Len(s) - 1) : s[k] = s[k + 1] /\ s[k] \in {";", "&", "|"}

\* the row the step has added to the commands table
Added == commands'[Len(commands')]

\* the step added exactly one Command and kept the others
AddsCommand ==
    /\ Len(commands') = Len(commands) + 1
    /\ SubSeq(commands', 1, Len(commands)) = commands

\* the submission answers with the created record
Created(r) == Moved(r) /\ r.pc = "submit_audit" /\ response' = Response("submit", 201, r.cid)

\* C11: a submission the Validator refuses is stored as a REJECTED Command
\* with no matched rule and credits_deducted = 0, whatever the balance and
\* whatever rule its text would match; no balance changes, no
\* ApprovalRequest is created, and when it is answered as created exactly
\* one COMMAND_REJECTED entry names the Command.
C11_InvalidIsStoredRejected ==
    [][\A r \in InFlight :
          /\ (Moved(r) /\ r.pc = "submit" /\ Malformed(r.text)) =>
                /\ response'.code # 402
                /\ credits' = credits /\ approvals' = approvals /\ audit' = audit
                /\ \/ db' = db /\ response' = Response("submit", 500, None)
                   \/ /\ AddsCommand
                      /\ Added.command_text = r.text /\ Added.user_id = r.actor
                      /\ Added.status = REJECTED /\ Added.rule_id = None
                      /\ Added.credits_deducted = 0
          /\ (Created(r) /\ Malformed(r.text)) =>
                /\ credits' = credits /\ approvals' = approvals
                /\ commands' = commands
                /\ commands[r.cid].status = REJECTED
                /\ commands[r.cid].rule_id = None
                /\ commands[r.cid].credits_deducted = 0
                /\ Cardinality(Entries("COMMAND_REJECTED", r.cid)') = 1
                /\ Cardinality({k \in DOMAIN audit' : audit'[k].command_id = r.cid}) = 1
                /\ \A a \in DOMAIN approvals : approvals[a].command_id # r.cid
      ]_vars

\* a refused text that rule 1 would match has been stored as REJECTED with
\* no rule, for a user whose balance is 0 or less, and answered as created
C11_Witness ==
    /\ response.op = "submit" /\ response.code = 201
    /\ response.ref \in DOMAIN commands
    /\ LET c == commands[response.ref] IN
          /\ Malformed(c.command_text)
          /\ match_command_against_rules(c.command_text, rules)[1] # None
          /\ c.status = REJECTED /\ c.rule_id = None /\ c.credits_deducted = 0
          /\ credits[c.user_id] <= 0
          /\ Cardinality(Entries("COMMAND_REJECTED", response.ref)) = 1

\* C12: a submission of a well-formed text by a user whose balance is 0 or
\* less is answered 402 before any rule is matched: it stores no Command,
\* no ApprovalRequest and no audit entry and leaves every balance as it is.
C12_NoCreditsIsRefused ==
    [][\A r \in InFlight \cup BagToSet(req') :
          /\ (Accepted(r) /\ r.pc = "submit") => r.ucredits = credits[r.actor]
          /\ (Moved(r) /\ r.pc = "submit" /\ ~Malformed(r.text) /\ r.ucredits <= 0) =>
                /\ response' = Response("submit", 402, None)
                /\ db' = db
                /\ req' = req (-) SetToBag({r})
      ]_vars

\* a submission has just been refused with 402 while the submitter's
\* balance is 0 or less
C12_Witness ==
    /\ response = Response("submit", 402, None)
    /\ \E u \in Submitters : credits[u] <= 0

\* ------------------------------------------------------ rule matcher
\* the pattern's literal is a piece of the text (a piece at the start of
\* the text for an anchored pattern)
Found(p, t) ==
    \E i \in 1..(Len(t) + 1) : \E j \in (i - 1)..Len(t) :
        /\ SubSeq(t, i, j) = p.lit
        /\ p.anchor => i = 1

\* the compiling rules of the table whose pattern is found in the text
Hits(t, table) == {r \in Rows(table) : r.pattern.ok /\ Found(r.pattern, t)}

\* what the matcher has to return for the text
Expected(t, table) ==
    IF Hits(t, table) = {} THEN <<None, NoAction>>
    ELSE LET first == CHOOSE r \in Hits(t, table) :
                        \A o \in Hits(t, table) \ {r} :
                            \/ r.priority < o.priority
                            \/ r.priority = o.priority /\ r.id < o.id
         IN <<first.id, first.action>>

\* C13: for every rules table and text the matcher returns the first rule
\* in (priority, id) order whose pattern is found somewhere in the text,
\* and no rule exactly when none is found; a Command stored for a
\* well-formed text records that rule's id, or none.
C13_FirstMatchByPriorityThenId ==
    /\ \A t \in MatchTexts : match_command_against_rules(t, rules) = Expected(t, rules)
    /\ \A i \in DOMAIN commands :
          ~Malformed(commands[i].command_text) =>
              commands[i].rule_id = Expected(commands[i].command_text, rules)[1]

\* a Command whose text holds the pattern of rule 1 behind the pattern of
\* another rule of the table has been stored with rule 1, found by search
\* and first by priority
C13_Witness ==
    \E i \in DOMAIN commands :
        /\ commands[i].command_text = <<"l", "s", "r", "m">>
        /\ commands[i].rule_id = 1
        /\ Cardinality(Hits(commands[i].command_text, rules)) > 1
        /\ rules[1].id # 1

\* every order in which the storage may hold the rows of the table
StoredOrders(table) ==
    {[i \in DOMAIN table |-> table[p[i]]] : p \in Permutations(DOMAIN table)}

\* C14: the matcher's answer depends on the rules' (pattern, priority, id,
\* action) and the text only: the rule recorded for a submission is the
\* one the matcher returns for every stored order of the same rules, and
\* Commands stored at different times for the same well-formed text record
\* the same rule.
C14_MatchIsDeterministic ==
    [][/\ \A r \in InFlight :
             (Moved(r) /\ r.pc = "submit" /\ AddsCommand /\ ~Malformed(r.text)) =>
                 \A other \in StoredOrders(rules) :
                     match_command_against_rules(r.text, other)[1] = Added.rule_id
       /\ \A i, j \in DOMAIN commands' :
             (/\ commands'[i].command_text = commands'[j].command_text
              /\ ~Malformed(commands'[i].command_text)) =>
                 commands'[i].rule_id = commands'[j].rule_id
      ]_vars

\* two Commands with the same text have been matched to the same rule by
\* a table that holds two matching rules and stores the later one first
C14_Witness ==
    \E i, j \in DOMAIN commands :
        /\ i < j
        /\ commands[i].command_text = commands[j].command_text
        /\ commands[i].rule_id # None
        /\ commands[i].rule_id = commands[j].rule_id
        /\ Cardinality(Hits(commands[i].command_text, rules)) > 1
        /\ rules[1].id # commands[i].rule_id
        /\ rules[1] \in Hits(commands[i].command_text, rules)

\* the table without the rules whose pattern does not compile
Compiling(table) == SelectSeq(table, LAMBDA r : r.pattern.ok)

\* C15: a rule whose pattern does not compile is skipped: the matcher
\* returns what it returns for the table without that rule, and a
\* submission is matched to the rules that follow it.
C15_BadPatternIsSkipped ==
    /\ \A t \in MatchTexts :
          match_command_against_rules(t, rules) =
              match_command_against_rules(t, Compiling(rules))
    /\ \A i \in DOMAIN commands :
          ~Malformed(commands[i].command_text) =>
              commands[i].rule_id =
                  match_command_against_rules(commands[i].command_text, Compiling(rules))[1]

\* a Command has been matched to a rule that follows a rule whose pattern
\* does not compile
C15_Witness ==
    \E i \in DOMAIN commands :
        /\ commands[i].rule_id # None
        /\ \E bad \in Rows(rules) :
              /\ ~bad.pattern.ok
              /\ RuleBefore(bad, RuleById(rules, commands[i].rule_id))

\* ------------------------------------------------ dispatch outcomes
\* the submission in flight is well formed, its user had a positive
\* balance when it was taken up, and the matcher's answer has this action
Dispatched(r, action) ==
    /\ Moved(r) /\ r.pc = "submit"
    /\ ~Malformed(r.text) /\ r.ucredits > 0
    /\ Expected(r.text, rules)[2] = action

\* the step added exactly one audit entry, of this kind, naming command cid
AddsEntry(kind, cid, actor) ==
    /\ Len(audit') = Len(audit) + 1
    /\ SubSeq(audit', 1, Len(audit)) = audit
    /\ audit'[Len(audit')].action = kind
    /\ audit'[Len(audit')].command_id = cid
    /\ audit'[Len(audit')].user_id = actor

\* the step lowered the balance of user u by one and no other balance
Charged(u) ==
    credits' = [credits EXCEPT ![u] = credits[u] - 1]

\* C16: a well-formed submission of a user with a positive balance that
\* matches no rule, or an AUTO_ACCEPT rule first, ends with one EXECUTED
\* Command (credits_deducted = 1, result with the text and the success
\* marker, execution timestamp), the user's balance lowered by exactly 1,
\* one COMMAND_EXECUTED entry and no ApprovalRequest; a storage failure
\* leaves nothing behind.
C16_AcceptedIsExecutedAndCharged ==
    [][\A r \in InFlight :
          (Dispatched(r, AUTO_ACCEPT) \/ Dispatched(r, NoAction)) =>
              \/ response' = Response("submit", 500, None) /\ db' = db
              \/ /\ response' = Response("submit", 201, Len(commands) + 1)
                 /\ AddsCommand
                 /\ Added.command_text = r.text /\ Added.user_id = r.actor
                 /\ Added.status = EXECUTED /\ Added.credits_deducted = 1
                 /\ Added.rule_id = Expected(r.text, rules)[1]
                 /\ Added.result[2] = r.text /\ Added.result[3] = "SUCCESS"
                 /\ Added.executed_at
                 /\ Charged(r.actor)
                 /\ AddsEntry("COMMAND_EXECUTED", Len(commands'), r.actor)
                 /\ approvals' = approvals
      ]_vars

\* the submission that stored its Command answers with the created record,
\* and the matcher's answer for its text has this action
CreatedBy(r, action) ==
    /\ Moved(r) /\ r.pc = "submit_audit"
    /\ ~Malformed(r.text)
    /\ Expected(r.text, rules)[2] = action
    /\ response'.code # 500

\* audit entries that name command cid
EntriesOf(cid) == {k \in DOMAIN audit : audit[k].command_id = cid}

\* ApprovalRequests of command cid
ApprovalsOf(cid) == {a \in DOMAIN approvals : approvals[a].command_id = cid}

\* C17: a well-formed submission of a user with a positive balance whose
\* first matching rule is AUTO_REJECT is answered as a created record: one
\* Command REJECTED that records the rule and names the rule's description
\* (its pattern when it has none) in its result, credits_deducted = 0, no
\* balance changed, exactly one audit entry, of kind COMMAND_REJECTED, and
\* no ApprovalRequest.
C17_AutoRejectIsStoredRejected ==
    [][\A r \in InFlight :
          /\ Dispatched(r, AUTO_REJECT) =>
                /\ credits' = credits /\ approvals' = approvals /\ audit' = audit
                /\ \/ response' = Response("submit", 500, None) /\ db' = db
                   \/ /\ AddsCommand
                      /\ Added.command_text = r.text /\ Added.user_id = r.actor
                      /\ Added.status = REJECTED /\ Added.credits_deducted = 0
                      /\ Added.rule_id = Expected(r.text, rules)[1]
                      /\ ~Added.executed_at
                      /\ LET rule == CHOOSE x \in Rows(rules) : x.id = Added.rule_id IN
                            IF rule.description # NoText
                            THEN Added.result[2] = rule.description
                            ELSE Added.result[2] = rule.pattern
          /\ CreatedBy(r, AUTO_REJECT) =>
                /\ response' = Response("submit", 201, r.cid)
                /\ credits' = credits /\ approvals' = approvals /\ commands' = commands
                /\ commands[r.cid].status = REJECTED
                /\ commands[r.cid].credits_deducted = 0
                /\ AddsEntry("COMMAND_REJECTED", r.cid, r.actor)
                /\ Cardinality(EntriesOf(r.cid)') = 1
                /\ ApprovalsOf(r.cid) = {}
      ]_vars

\* a Command rejected by a rule without description has been answered as
\* created: it records the rule, names the pattern and has its one entry
C17_Witness ==
    /\ response.op = "submit" /\ response.code = 201
    /\ response.ref \in DOMAIN commands
    /\ LET c == commands[response.ref] IN
          /\ c.status = REJECTED /\ c.rule_id # None
          /\ RuleById(rules, c.rule_id).action = AUTO_REJECT
          /\ RuleById(rules, c.rule_id).description = NoText
          /\ c.result[2] = RuleById(rules, c.rule_id).pattern
          /\ c.credits_deducted = 0
          /\ credits[c.user_id] = InitCredits
          /\ Cardinality(Entries("COMMAND_REJECTED", response.ref)) = 1

\* C18: a well-formed submission of a user with a positive balance whose
\* first matching rule is REQUIRE_APPROVAL stores, in one commit, one
\* Command PENDING_APPROVAL and exactly one pending ApprovalRequest linked
\* to the Command and its requester, then writes one
\* COMMAND_PENDING_APPROVAL entry; it deducts no credit.
C18_RequireApprovalIsStoredPending ==
    [][\A r \in InFlight :
          /\ Dispatched(r, REQUIRE_APPROVAL) =>
                /\ credits' = credits /\ audit' = audit
                /\ \/ response' = Response("submit", 500, None) /\ db' = db
                   \/ /\ AddsCommand
                      /\ Added.command_text = r.text /\ Added.user_id = r.actor
                      /\ Added.status = PENDING_APPROVAL /\ Added.credits_deducted = 0
                      /\ Added.rule_id = Expected(r.text, rules)[1]
                      /\ ~Added.executed_at
                      /\ Len(approvals') = Len(approvals) + 1
                      /\ SubSeq(approvals', 1, Len(approvals)) = approvals
                      /\ approvals'[Len(approvals')] =
                            [command_id |-> Len(commands'), requested_by |-> r.actor,
                             status |-> "pending", approved_by |-> None,
                             reviewed_at |-> FALSE]
                      /\ Cardinality({a \in DOMAIN approvals' :
                                        approvals'[a].command_id = Len(commands')}) = 1
          /\ CreatedBy(r, REQUIRE_APPROVAL) =>
                /\ response' = Response("submit", 201, r.cid)
                /\ credits' = credits /\ approvals' = approvals /\ commands' = commands
                /\ AddsEntry("COMMAND_PENDING_APPROVAL", r.cid, r.actor)
                /\ Cardinality(Entries("COMMAND_PENDING_APPROVAL", r.cid)') = 1
                /\ Cardinality(ApprovalsOf(r.cid)) = 1
                /\ \A a \in ApprovalsOf(r.cid) : approvals[a].requested_by = r.actor
      ]_vars

\* a submission has been answered as created with its Command
\* PENDING_APPROVAL, its one pending ApprovalRequest and its one entry,
\* and the requester's balance is the initial one
C18_Witness ==
    /\ response.op = "submit" /\ response.code = 201
    /\ response.ref \in DOMAIN commands
    /\ LET c == commands[response.ref] IN
          /\ c.status = PENDING_APPROVAL /\ c.credits_deducted = 0
          /\ credits[c.user_id] = InitCredits
          /\ \E a \in DOMAIN approvals :
                /\ approvals[a].command_id = response.ref
                /\ approvals[a].status = "pending"
                /\ approvals[a].requested_by = c.user_id
          /\ Cardinality(Entries("COMMAND_PENDING_APPROVAL", response.ref)) = 1

\* ------------------------------------------------- approval workflow
\* the Command was created by a REQUIRE_APPROVAL outcome
CreatedPending(c) ==
    /\ c.rule_id # None
    /\ \E x \in Rows(rules) : x.id = c.rule_id /\ x.action = REQUIRE_APPROVAL

\* C19: an ApprovalRequest exists for a Command exactly when the Command
\* was created PENDING_APPROVAL, no Command has two, and the statuses
\* agree: pending with PENDING_APPROVAL, approved with EXECUTED, rejected
\* with REJECTED.
C19_ApprovalMirrorsCommand ==
    /\ \A i \in DOMAIN commands :
          /\ Cardinality(ApprovalsOf(i)) <= 1
          /\ ApprovalsOf(i) # {} <=> CreatedPending(commands[i])
          /\ commands[i].status = PENDING_APPROVAL => ApprovalsOf(i) # {}
    /\ \A a \in DOMAIN approvals :
          LET c == commands[approvals[a].command_id] IN
          /\ approvals[a].status \in {"pending", "approved", "rejected"}
          /\ approvals[a].status = "pending" <=> c.status = PENDING_APPROVAL
          /\ approvals[a].status = "approved" <=> c.status = EXECUTED
          /\ approvals[a].status = "rejected" <=> c.status = REJECTED

\* one Command executed by an approval and one rejected by a review
C19_Witness ==
    /\ \E a \in DOMAIN approvals :
          /\ approvals[a].status = "approved"
          /\ commands[approvals[a].command_id].status = EXECUTED
    /\ \E a \in DOMAIN approvals :
          /\ approvals[a].status = "rejected"
          /\ commands[approvals[a].command_id].status = REJECTED

\* C20: an approve-review of a pending ApprovalRequest whose requester has
\* a positive balance, when it succeeds, sets the ApprovalRequest to
\* approved with the admin as reviewer and a review timestamp, sets the
\* Command to EXECUTED with credits_deducted = 1, lowers the requester's
\* balance (and no other) by exactly 1, and writes one COMMAND_EXECUTED
\* entry and one COMMAND_APPROVED entry attributed to the admin.
C20_ApproveExecutesAndCharges ==
    [][\A r \in InFlight :
          /\ (Moved(r) /\ r.pc = "review" /\ r.decision = "approve" /\ r.ucredits > 0) =>
                \/ response' = Response("review", 500, r.aid) /\ db' = db
                \/ /\ approvals'[r.aid].status = "approved"
                   /\ approvals'[r.aid].approved_by = r.actor
                   /\ approvals'[r.aid].reviewed_at
                   /\ commands'[r.cid].status = EXECUTED
                   /\ commands'[r.cid].credits_deducted = 1
                   /\ commands'[r.cid].executed_at
                   /\ Charged(commands[r.cid].user_id)
                   /\ AddsEntry("COMMAND_EXECUTED", r.cid, commands[r.cid].user_id)
                   /\ Cardinality(Entries("COMMAND_EXECUTED", r.cid)') = 1
          /\ (Moved(r) /\ r.pc = "approve_audit" /\ response'.code = 200) =>
                /\ response' = Response("review", 200, r.aid)
                /\ credits' = credits /\ commands' = commands /\ approvals' = approvals
                /\ AddsEntry("COMMAND_APPROVED", r.cid, r.actor)
                /\ Cardinality(Entries("COMMAND_APPROVED", r.cid)') = 1
                /\ role[r.actor] = ADMIN
      ]_vars

\* C21: a reject-review sets, in one commit, the ApprovalRequest to
\* rejected with the admin as reviewer and a review timestamp and the
\* Command to REJECTED with a result citing the admin's reason (the default
\* text when there is none), and writes exactly one audit entry attributed
\* to the admin; it changes no balance and no credits_deducted.
C21_RejectReviewEffect ==
    [][\A r \in InFlight :
          (Moved(r) /\ r.pc = "review" /\ r.decision = "reject") =>
              \/ response' = Response("review", 500, r.aid) /\ db' = db
              \/ /\ response' = Response("review", 200, r.aid)
                 /\ approvals'[r.aid].status = "rejected"
                 /\ approvals'[r.aid].approved_by = r.actor
                 /\ approvals'[r.aid].reviewed_at
                 /\ \A a \in DOMAIN approvals \ {r.aid} : approvals'[a] = approvals[a]
                 /\ DOMAIN approvals' = DOMAIN approvals
                 /\ commands'[r.cid].status = REJECTED
                 /\ commands'[r.cid].result[2] =
                       IF r.reason = NoText THEN "No reason provided" ELSE r.reason
                 /\ commands'[r.cid].credits_deducted = commands[r.cid].credits_deducted
                 /\ \A i \in DOMAIN commands \ {r.cid} : commands'[i] = commands[i]
                 /\ DOMAIN commands' = DOMAIN commands
                 /\ AddsEntry("COMMAND_REJECTED_BY_ADMIN", r.cid, r.actor)
                 /\ role[r.actor] = ADMIN
                 /\ credits' = credits
      ]_vars

\* a review without a reason has rejected a Command: the result cites the
\* default text, the ApprovalRequest names its reviewer, one entry is written
C21_Witness ==
    /\ response.op = "review" /\ response.code = 200
    /\ response.ref \in DOMAIN approvals
    /\ LET ap == approvals[response.ref] IN
          /\ ap.status = "rejected" /\ ap.approved_by \in Reviewers /\ ap.reviewed_at
          /\ commands[ap.command_id].status = REJECTED
          /\ commands[ap.command_id].result[2] = "No reason provided"
          /\ commands[ap.command_id].credits_deducted = 0
          /\ Cardinality(Entries("COMMAND_REJECTED_BY_ADMIN", ap.command_id)) = 1
          /\ credits[ap.requested_by] = InitCredits

\* the status transitions a stored Command has made: its creation, and its
\* review once its ApprovalRequest is no longer pending
ReviewsOf(cid) ==
    {a \in DOMAIN approvals :
        approvals[a].command_id = cid /\ approvals[a].status # "pending"}

\* the entries of a Command, oldest first
FirstEntryOf(cid) ==
    CHOOSE k \in EntriesOf(cid) : \A j \in EntriesOf(cid) : k <= j

\* C22: once no request is in flight, every stored Command has exactly one
\* audit entry per status transition it made (one for its admission
\* outcome, one more for its review), the admission entry attributed to the
\* submitter and the review entry to the reviewing admin.
C22_OneEntryPerTransition ==
    req = EmptyBag =>
        \A i \in DOMAIN commands :
            /\ Cardinality(EntriesOf(i)) = 1 + Cardinality(ReviewsOf(i))
            /\ audit[FirstEntryOf(i)].user_id = commands[i].user_id
            /\ \A k \in EntriesOf(i) \ {FirstEntryOf(i)} :
                   \E a \in ReviewsOf(i) : audit[k].user_id = approvals[a].approved_by

\* C23: every EXECUTED Command has exactly one COMMAND_EXECUTED entry, and
\* no COMMAND_EXECUTED entry names a Command that is not EXECUTED.
C23_OneExecutionEntryPerExecuted ==
    /\ \A i \in DOMAIN commands :
           commands[i].status = EXECUTED =>
               Cardinality(Entries("COMMAND_EXECUTED", i)) = 1
    /\ \A k \in DOMAIN audit :
           audit[k].action = "COMMAND_EXECUTED" =>
               /\ audit[k].command_id \in DOMAIN commands
               /\ commands[audit[k].command_id].status = EXECUTED

\* C24: no user's balance is ever negative, whatever value an administrator
\* sets it to.
C24_BalanceNeverNegative ==
    \A u \in UserIds : credits[u] >= 0

\* C25: a credit override sets the target's balance to the given value and
\* adds one CREDITS_UPDATED entry by the admin with the old and the new
\* value, both in one step or neither, and changes no Command and no
\* ApprovalRequest; for an unknown user it answers 404 and changes nothing.
C25_OverrideAllOrNothing ==
    [][/\ \A r \in InFlight :
             (Moved(r) /\ r.pc \in {"credits", "credits_audit"}) =>
                 \/ db' = db /\ response' = Response("credits", 500, r.target)
                 \/ /\ response' = Response("credits", 200, r.target)
                    /\ credits' = [credits EXCEPT ![r.target] = r.value]
                    /\ AddsEntry("CREDITS_UPDATED", None, r.actor)
                    /\ audit'[Len(audit')].details =
                           <<r.target, credits[r.target], r.value>>
                    /\ commands' = commands
                    /\ approvals' = approvals
       /\ (response'.op = "credits" /\ response'.code = 404) => db' = db
      ]_vars

\* C26: the audit log is append-only: every step leaves the entries already
\* in the log as they are, in their place, and at most adds entries after
\* them.
C26_AuditIsAppendOnly ==
    [][/\ Len(audit') >= Len(audit)
       /\ SubSeq(audit', 1, Len(audit)) = audit
      ]_vars

\* the log has been extended by a submission, an execution and an override
C26_Witness ==
    /\ Len(audit) >= 3
    /\ \E i, j, k \in DOMAIN audit :
          /\ i < j /\ j < k
          /\ audit[i].action = "COMMAND_PENDING_APPROVAL"
          /\ audit[j].action = "CREDITS_UPDATED"
          /\ audit[k].action = "COMMAND_EXECUTED"

C29_FailedExecutionLeavesNoTrace ==
    [][\A r \in InFlight :
          ( /\ Dispatched(r, AUTO_ACCEPT) \/ Dispatched(r, NoAction)
            /\ response'.code # 201 ) =>
              /\ response' \in {Response("submit", 402, None),
                                Response("submit", 500, None)}
              /\ commands' = commands /\ audit' = audit /\ credits' = credits
              /\ db' = db
              /\ req' = req (-) SetToBag({r})
      ]_vars

\* a submission has been answered 500 and the store holds what it held
\* when the gateway was seeded: no Command, no entry, every balance intact
C29_Witness ==
    /\ response = Response("submit", 500, None)
    /\ commands = <<>> /\ audit = <<>> /\ approvals = <<>>
    /\ \A u \in UserIds : credits[u] = InitCredits
    /\ \A t \in MatchTexts :
           match_command_against_rules(t, rules)[2] \in {AUTO_ACCEPT, NoAction}

\* C30: credits are checked when a Command is executed, not reserved when
\* it is submitted.  With one request at a time: storing a Command as
\* PENDING_APPROVAL changes no balance; an approve-review of a request whose
\* requester's stored balance is 0 or less is answered 402 and leaves the
\* request pending; an approve-review while the stored balance is positive
\* executes the Command and lowers that balance by exactly 1 (or fails with
\* 500 and changes nothing).  Each execution therefore uses up one credit,
\* so k credits execute at most k pending Commands, and a refused request
\* is approved once the balance has been raised.
C30_CreditsCheckedAtExecution ==
    [][/\ (AddsCommand /\ Added.status = PENDING_APPROVAL) => credits' = credits
       /\ \A r \in InFlight :
             (Moved(r) /\ r.pc = "review" /\ r.decision = "approve") =>
                 LET u == approvals[r.aid].requested_by IN
                 IF credits[u] <= 0
                 THEN /\ response' = Response("review", 402, r.aid)
                      /\ db' = db
                      /\ approvals[r.aid].status = "pending"
                 ELSE \/ response' = Response("review", 500, r.aid) /\ db' = db
                      \/ /\ commands'[r.cid].status = EXECUTED
                         /\ approvals'[r.aid].status = "approved"
                         /\ Charged(u)
                         /\ credits'[u] >= 0
      ]_vars

\* a user with one credit had two Commands pending; both are executed, the
\* second one after an override raised the balance in between
C30_Witness ==
    /\ InitCredits = 1
    /\ Len(commands) = 2 /\ Len(approvals) = 2
    /\ \A i \in DOMAIN commands :
           commands[i].status = EXECUTED /\ commands[i].user_id = MemberId
    /\ \A a \in DOMAIN approvals : approvals[a].status = "approved"
    /\ \E i, j, k, l \in DOMAIN audit :
          /\ i < j /\ j < k /\ k < l
          /\ audit[i].action = "COMMAND_PENDING_APPROVAL"
          /\ audit[j].action = "COMMAND_EXECUTED"
          /\ audit[j].command_id # audit[i].command_id
          /\ audit[k].action = "CREDITS_UPDATED"
          /\ audit[l].action = "COMMAND_EXECUTED"
          /\ audit[l].command_id = audit[i].command_id

\* the header names a stored user
Known(h) == \E u \in DOMAIN users : users[u].api_key = h

\* the credential is absent or unknown
Stranger(h) == h = NoHeader \/ ~Known(h)

\* the credential is that of a user who is no administrator
NonAdmin(h) ==
    /\ h # NoHeader
    /\ \E u \in DOMAIN users : users[u].api_key = h /\ users[u].role # ADMIN

\* the step answers with this status, stores nothing and starts no work
Refused(code) == response'.code = code /\ db' = db /\ req' = req

\* a call of an admin-only operation: 401 for a stranger, 403 for a user
\* who is no administrator
AdminOnly(h) ==
    /\ Stranger(h) => Refused(401)
    /\ NonAdmin(h) => Refused(403)

\* C28: every operation called with an absent or unknown credential is
\* answered 401, and every admin-only operation (list pending approvals,
\* review, create, update and delete a rule, create and list users, adjust
\* credits, read audit logs) called by a user who is no administrator is
\* answered 403; in both cases nothing stored changes.
C28_StrangersAndMembersAreRefused ==
    [][\A h \in Credentials :
          /\ \A t \in Texts : SubmitCall(h, t) => (Stranger(h) => Refused(401))
          /\ \A op \in UserReads, id \in RuleIds :
                 ReadCall(h, op, id) => (Stranger(h) => Refused(401))
          /\ \A op \in {"list_pending_approvals", "list_users", "get_audit_logs",
                        "get_user_audit_logs"}, id \in RuleIds :
                 ReadCall(h, op, id) => AdminOnly(h)
          /\ \A a \in ApprovalIds, d \in Decisions, why \in Reasons :
                 ReviewCall(h, a, d, why) => AdminOnly(h)
          /\ \A target \in TargetIds, value \in OverrideValues :
                 CreditsCall(h, target, value) => AdminOnly(h)
          /\ \A data \in RuleInputs : RuleCreateCall(h, data) => AdminOnly(h)
          /\ \A id \in RuleIds, data \in RuleUpdates :
                 RuleUpdateCall(h, id, data) => AdminOnly(h)
          /\ \A id \in RuleIds : RuleDeleteCall(h, id) => AdminOnly(h)
          /\ \A name \in Usernames : UserCreateCall(h, name, MEMBER) => AdminOnly(h)
      ]_vars

\* C31: every stored Rule has a pattern that compiles: a create_rule or an
\* update_rule whose body gives a pattern that does not compile is answered
\* 422, starts no work and leaves the rules and the audit log as they are.
C31_StoredPatternsCompile ==
    [][/\ \A k \in DOMAIN rules : rules[k].pattern.ok
       /\ \A k \in DOMAIN rules' : rules'[k].pattern.ok
       /\ \A r \in BagToSet(req') :
             /\ r.pc = "create_rule" => r.body.pattern.ok
             /\ (r.pc = "update_rule" /\ "pattern" \in r.body.given) => r.body.pattern.ok
       /\ (response'.op \in {"create_rule", "update_rule"} /\ response'.code = 422) =>
             /\ rules' = rules /\ audit' = audit /\ db' = db
             /\ req' = req
      ]_vars

\* an administrator's rule with a pattern that does not compile has just
\* been refused, and a rule the administrator created is stored
C31_Witness ==
    /\ response.op = "create_rule" /\ response.code = 422
    /\ Len(rules) = Len(SeedRules) + 1
    /\ \A k \in DOMAIN rules : rules[k].pattern.ok
    /\ \E k \in DOMAIN audit : audit[k].action = "RULE_CREATED"

\* C32: no stored Command has the interim status ACCEPTED: in every committed
\* state each Command is REJECTED, EXECUTED or PENDING_APPROVAL (the staged
\* ACCEPTED row is stored as EXECUTED by the same commit, or not at all).
C32_NoStoredAccepted ==
    \A i \in DOMAIN commands :
       /\ commands[i].status \in {REJECTED, EXECUTED, PENDING_APPROVAL}
       /\ commands[i].status # ACCEPTED

C32_Witness ==
    /\ response.op = "submit" /\ response.code = 201
    /\ response.ref \in DOMAIN commands
    /\ commands[response.ref].status = EXECUTED
    /\ commands[response.ref].executed_at
    /\ \E i \in DOMAIN commands : commands[i].status = PENDING_APPROVAL
    /\ \A a \in DOMAIN approvals : approvals[a].status = "pending"

\* the override sessions that have committed a new balance for user u and
\* whose value is still the stored one
OverridesStanding(u) ==
    {c \in BagToSet(req) : /\ c.pc = "credits_audit" /\ c.target = u
                           /\ c.value # c.ucredits /\ credits[u] = c.value}

\* C33: an admin credit override that commits while an execution for the
\* same user is in flight is not lost: the execution's commit leaves the
\* override value less one, never its own stale balance less one.
C33_OverrideNotLost ==
    [][\A u \in UserIds : \A c \in OverridesStanding(u) :
          (\E cid \in 1..MaxCommands : AddsEntry("COMMAND_EXECUTED", cid, u)) =>
              credits'[u] = c.value - 1
      ]_vars

\* an administrator sends a review of the pending ApprovalRequest a that
\* can go through: a reject, or an approve while the requester's balance
\* is positive
Reviewing(a) ==
    /\ PendingApproval(a)
    /\ \E d \in Decisions, why \in Reasons :
          /\ d = "approve" => credits[commands[approvals[a].command_id].user_id] > 0
          /\ ReviewBegin(AdminId, a, d, why)
          /\ req' # req

\* the Command is held for approval
Held(cid) == cid \in DOMAIN commands /\ commands[cid].status = PENDING_APPROVAL

\* the Command has left the approval queue for good
Settled(cid) == cid \in DOMAIN commands /\ commands[cid].status \in {EXECUTED, REJECTED}

\* a free worker accepts a reject-review of a by the administrator
CanReject(a) ==
    ENABLED (\E why \in Reasons : ReviewBegin(AdminId, a, "reject", why) /\ req' # req)

\* the review r in flight can commit and be answered
CanCommit(r) ==
    ENABLED (/\ ReviewApprove(r) \/ ReviewReject(r)
             /\ approvals'[r.aid].status = (IF r.decision = "reject" THEN "rejected"
                                            ELSE "approved")
             /\ commands'[r.cid].status = (IF r.decision = "reject" THEN REJECTED
                                           ELSE EXECUTED))

\* C34: no pending ApprovalRequest gets stuck.  In every state a Command is
\* held exactly when it has a pending ApprovalRequest; a free worker takes
\* a reject-review of a pending request, and a review in flight (a reject,
\* or an approve loaded with a positive balance) can commit its decision;
\* so if every pending request keeps being reviewed by a reject, or by an
\* approve while the balance is positive, every held Command ends up
\* EXECUTED or REJECTED.
C34_PendingNotStuck ==
    /\ [](/\ \A cid \in DOMAIN commands :
              Held(cid) <=> \E a \in DOMAIN approvals :
                               /\ approvals[a].command_id = cid
                               /\ approvals[a].status = "pending"
          /\ \A a \in DOMAIN approvals :
              (approvals[a].status = "pending" /\ BagCardinality(req) < MaxConc)
                 => CanReject(a)
          /\ \A r \in InFlight :
              (r.pc = "review" /\ (r.decision = "reject" \/ r.ucredits > 0))
                 => CanCommit(r))
    /\ (\A a \in 1..MaxCommands : SF_vars(Reviewing(a)))
          => \A cid \in 1..MaxCommands : Held(cid) ~> Settled(cid)

C34_Witness ==
    /\ \E cid \in DOMAIN commands : Held(cid)
    /\ \E cid \in DOMAIN commands :
          /\ commands[cid].status = REJECTED
          /\ \E a \in DOMAIN approvals : /\ approvals[a].command_id = cid
                                          /\ approvals[a].status = "rejected"
    /\ \E r \in InFlight : r.pc = "review" /\ r.decision = "approve" /\ r.ucredits > 0

\* C35: an ApprovalRequest has a reviewer and a review timestamp exactly
\* when its status is approved or rejected, and a Command has an execution
\* timestamp exactly when its status is EXECUTED.
C35_TimestampsFollowStatus ==
    /\ \A a \in DOMAIN approvals :
          /\ approvals[a].approved_by # None <=> approvals[a].status \in {"approved", "rejected"}
          /\ approvals[a].reviewed_at <=> approvals[a].status \in {"approved", "rejected"}
    /\ \A i \in DOMAIN commands :
          commands[i].executed_at <=> commands[i].status = EXECUTED

====
